---- MODULE Spec2Model ----
(***************************************************************************)
(* Driver engine of the Parblo Intangbo S tablet driver (src/src/driver.rs)*)
(* as a state machine: the run loop, the hot reload of the configuration,  *)
(* the report decoder, the button/keymap dispatcher and the stylus state   *)
(* machine.  A handler is a function on a record `m` holding the fields of *)
(* DriverTask it reads or writes, the events written to the two virtual    *)
(* devices while the report is handled, and the handler's outcome:         *)
(*   status = "ok"     it is still running / it returned Ok                *)
(*   status = "err"    a `?` returned an Err (propagated out of run)       *)
(*   status = "panic"  the thread panicked (index or arithmetic check)     *)
(* A step of a handler whose input has status # "ok" does nothing: that is *)
(* how `?` and a panic skip the rest of the function.                      *)
(***************************************************************************)
EXTENDS Integers, Sequences, FiniteSets, TLC

VARIABLES
  pc,            \* where run() is: "top" (line 110), "conf" (113), "call" (114),
                 \* "read" (143), "handled" (148, handle_device_input returned
                 \* Ok), and after it ended "ok", "err", "panic"; before it,
                 \* where open_usb_device_handle is: "hs_write" (686), "hs_read"
                 \* (690), and "init_err" once DriverTask::new returned an Err
  cancelled,     \* cancel_token.cancelled()
  conf,          \* self.conf, the live configuration
  latest_conf,   \* self.latest_conf, the slot shared with the watcher
  keymap_index,  \* self.keymap_index
  pressed_keys,  \* self.pressed_keys
  stylus,        \* self.stylus
  input,         \* &buf[..len] of the read being handled, None between reads
  written,       \* the events written to the virtual devices for `input`
  pre,           \* history: the engine's fields before the reload or the report
                 \* handled last; None once the loop has moved on
  inserted,      \* history: the keys of pressed_keys in the order of insertion
  prev,          \* history: the report handled before `input` and whether it
                 \* made a hover or tip transition; None after a config install
  usb,           \* history: the interrupt transfers of open_usb_device_handle
  posts,         \* history: the configurations the watcher posted since the
                 \* engine last took one out of the slot
  uinput         \* history: what the events written so far leave on the two
                 \* virtual devices: the last value of each digitizer code and
                 \* the keys that are down on the keyboard

vars == <<pc, cancelled, conf, latest_conf, keymap_index, pressed_keys,
          stylus, input, written, pre, inserted, prev, usb, posts, uinput>>

\* Option<T>: None, or Some(v)
None == <<>>
Some(v) == <<v>>

\* ------------------------------------------------------------- numbers
U16 == 65536
I8 == 256

Min(a, b) == IF a <= b THEN a ELSE b

\* buf[i] & 0xf0
HighNibble(b) == (b \div 16) * 16

\* buf[i] & (0x01 << k) != 0
BitSet(b, k) == (b \div (2 ^ k)) % 2 = 1

\* u16::from_le_bytes([lo, hi])
u16_from_le_bytes(lo, hi) == lo + 256 * hi

\* i8::from_le_bytes([b])
i8_from_le_bytes(b) == IF b < 128 THEN b ELSE b - I8

\* A ratio is a pair <<numerator, denominator>>, denominator > 0 a power of
\* two, so that the f32 arithmetic of the code is exact on the model's values.
\* f32::round(): p/q rounded to the nearest integer, halves away from zero.
RoundHalfAway(p, q) ==
  IF p >= 0 THEN (2 * p + q) \div (2 * q) ELSE 0 - ((2 * (0 - p) + q) \div (2 * q))

\* `as u16` of a float: saturating
SaturateU16(v) == IF v < 0 THEN 0 ELSE IF v > U16 - 1 THEN U16 - 1 ELSE v

\* (max as f32 * min_ratio + (v as f32 * (max_ratio - min_ratio))).round() as u16
remap(max, v, map) ==
  LET an == map[1][1]  ad == map[1][2]
      bn == map[2][1]  bd == map[2][2]
  IN SaturateU16(RoundHalfAway(max * an * bd + v * (bn * ad - an * bd), ad * bd))

\* ------------------------------------------------------------- events
Event(dev, code, value) == [dev |-> dev, code |-> code, value |-> value]

SYN_REPORT == "SYN_REPORT"

Ret(m, v) == IF m.status = "ok" THEN [m EXCEPT !.ret = v] ELSE m

Panic(m) == [m EXCEPT !.status = "panic"]

\* UInputDevice::write_event(..)?  The fail_at-th write of the report fails.
write_event(m, dev, code, value) ==
  IF m.status # "ok" THEN m
  ELSE IF Len(m.written) = m.fail_at THEN [m EXCEPT !.status = "err"]
  ELSE [m EXCEPT !.written = Append(@, Event(dev, code, value))]

\* Mutant: the keyboard event goes to the other virtual device.
write_keyboard_event_wrong_device(m, code, value) == write_event(m, "digitizer", code, value)

write_keyboard_event(m, code, value) == write_event(m, "keyboard", code, value)

write_digitizer_event(m, code, value) == write_event(m, "digitizer", code, value)

\* ------------------------------------------------- stylus field writers
\* The X coordinate write_digitizer_x reports for the raw value x.
map_x(c, x) ==
  LET x1 == Min(x, c.x_max_value)
  IN IF c.x_map = None THEN x1 ELSE remap(c.x_max_value, x1, c.x_map[1])

\* Mutant: the forced write is suppressed like any other.
write_digitizer_x_unforced(m, x, force) ==
  IF m.status # "ok" THEN m
  ELSE
    LET x2 == map_x(m.conf, x)
    IN IF x2 = m.stylus.x THEN Ret(m, FALSE)
       ELSE Ret(write_digitizer_event([m EXCEPT !.stylus.x = x2], "ABS_X", x2), TRUE)

write_digitizer_x(m, x, force) ==
  IF m.status # "ok" THEN m
  ELSE
    LET x2 == map_x(m.conf, x)
    IN IF ~force /\ x2 = m.stylus.x THEN Ret(m, FALSE)
       ELSE Ret(write_digitizer_event([m EXCEPT !.stylus.x = x2], "ABS_X", x2), TRUE)

\* The Y coordinate before write_digitizer_y flips it.
remapped_y(c, y) ==
  LET y1 == Min(y, c.y_max_value)
  IN IF c.y_map = None THEN y1 ELSE remap(c.y_max_value, y1, c.y_map[1])

\* self.conf.y_max_value - y on u16: a build with overflow checks panics when
\* y > y_max_value, a build without them wraps.
write_digitizer_y(m, y, force) ==
  IF m.status # "ok" THEN m
  ELSE
    LET y2 == remapped_y(m.conf, y)
        y3 == (m.conf.y_max_value - y2) % U16
    IN IF y2 > m.conf.y_max_value /\ m.overflow_checks THEN Panic(m)
       ELSE IF ~force /\ y3 = m.stylus.y THEN Ret(m, FALSE)
       ELSE Ret(write_digitizer_event([m EXCEPT !.stylus.y = y3], "ABS_Y", y3), TRUE)

\* Mutant: the pressure is reported but not stored in the snapshot.
write_digitizer_tip_pressure_no_store(m, pressure, force) ==
  IF m.status # "ok" THEN m
  ELSE IF ~force /\ pressure = m.stylus.pressure THEN Ret(m, FALSE)
  ELSE Ret(write_digitizer_event(m, "ABS_PRESSURE", pressure), TRUE)

write_digitizer_tip_pressure(m, pressure, force) ==
  IF m.status # "ok" THEN m
  ELSE IF ~force /\ pressure = m.stylus.pressure THEN Ret(m, FALSE)
  ELSE Ret(write_digitizer_event([m EXCEPT !.stylus.pressure = pressure],
                                 "ABS_PRESSURE", pressure), TRUE)

\* Mutant: the tip press is reported but not remembered.
write_digitizer_tip_pressed_no_store(m) ==
  IF m.status # "ok" THEN m
  ELSE IF m.stylus.tip_pressed THEN Ret(m, FALSE)
  ELSE Ret(write_digitizer_tip_pressure(
             write_digitizer_event(m, "BTN_TOUCH", 1), 1, TRUE), TRUE)

write_digitizer_tip_pressed(m) ==
  IF m.status # "ok" THEN m
  ELSE IF m.stylus.tip_pressed THEN Ret(m, FALSE)
  ELSE Ret(write_digitizer_tip_pressure(
             write_digitizer_event([m EXCEPT !.stylus.tip_pressed = TRUE],
                                   "BTN_TOUCH", 1), 1, TRUE), TRUE)

\* Mutant: the tip release forgets to zero the pressure.
write_digitizer_tip_released_no_pressure(m) ==
  IF m.status # "ok" THEN m
  ELSE IF ~m.stylus.tip_pressed THEN Ret(m, FALSE)
  ELSE Ret(write_digitizer_event([m EXCEPT !.stylus.tip_pressed = FALSE],
                                 "BTN_TOUCH", 0), TRUE)

write_digitizer_tip_released(m) ==
  IF m.status # "ok" THEN m
  ELSE IF ~m.stylus.tip_pressed THEN Ret(m, FALSE)
  ELSE Ret(write_digitizer_tip_pressure(
             write_digitizer_event([m EXCEPT !.stylus.tip_pressed = FALSE],
                                   "BTN_TOUCH", 0), 0, TRUE), TRUE)

write_digitizer_button0_pressed(m) ==
  IF m.status # "ok" THEN m
  ELSE IF m.stylus.button0_pressed THEN Ret(m, FALSE)
  ELSE Ret(write_digitizer_event([m EXCEPT !.stylus.button0_pressed = TRUE],
                                 "BTN_STYLUS", 1), TRUE)

write_digitizer_button0_released(m) ==
  IF m.status # "ok" THEN m
  ELSE IF ~m.stylus.button0_pressed THEN Ret(m, FALSE)
  ELSE Ret(write_digitizer_event([m EXCEPT !.stylus.button0_pressed = FALSE],
                                 "BTN_STYLUS", 0), TRUE)

\* Mutant: the press of side button 1 is reported but not stored.
write_digitizer_button1_pressed_no_store(m) ==
  IF m.status # "ok" THEN m
  ELSE IF m.stylus.button1_pressed THEN Ret(m, FALSE)
  ELSE Ret(write_digitizer_event(m, "BTN_STYLUS2", 1), TRUE)

write_digitizer_button1_pressed(m) ==
  IF m.status # "ok" THEN m
  ELSE IF m.stylus.button1_pressed THEN Ret(m, FALSE)
  ELSE Ret(write_digitizer_event([m EXCEPT !.stylus.button1_pressed = TRUE],
                                 "BTN_STYLUS2", 1), TRUE)

write_digitizer_button1_released(m) ==
  IF m.status # "ok" THEN m
  ELSE IF ~m.stylus.button1_pressed THEN Ret(m, FALSE)
  ELSE Ret(write_digitizer_event([m EXCEPT !.stylus.button1_pressed = FALSE],
                                 "BTN_STYLUS2", 0), TRUE)

write_digitizer_tilt_x(m, tilt_x) ==
  IF m.status # "ok" THEN m
  ELSE IF tilt_x = m.stylus.tilt_x THEN Ret(m, FALSE)
  ELSE Ret(write_digitizer_event([m EXCEPT !.stylus.tilt_x = tilt_x],
                                 "ABS_TILT_X", tilt_x), TRUE)

\* Mutant: the Y tilt is reported whether it changed or not.
write_digitizer_tilt_y_unsuppressed(m, tilt_y) ==
  IF m.status # "ok" THEN m
  ELSE Ret(write_digitizer_event([m EXCEPT !.stylus.tilt_y = tilt_y],
                                 "ABS_TILT_Y", tilt_y), TRUE)

write_digitizer_tilt_y(m, tilt_y) ==
  IF m.status # "ok" THEN m
  ELSE IF tilt_y = m.stylus.tilt_y THEN Ret(m, FALSE)
  ELSE Ret(write_digitizer_event([m EXCEPT !.stylus.tilt_y = tilt_y],
                                 "ABS_TILT_Y", tilt_y), TRUE)

\* ------------------------------------------------ stylus state machine
\* `buf` is the report without its usage byte; buf[i] of the code is buf[i+1].
handle_digitizer_event(m, buf) ==
  IF m.status # "ok" THEN m
  ELSE IF HighNibble(buf[1]) \notin {160, 192} THEN m
  ELSE IF Len(buf) < 9 THEN Panic(m)
  ELSE
    LET stylus_in_area  == HighNibble(buf[1]) = 160
        stylus_touching == BitSet(buf[1], 0)
        stylus0_pressed == BitSet(buf[1], 1)
        stylus1_pressed == BitSet(buf[1], 2)
        y        == u16_from_le_bytes(buf[2], buf[3])
        x        == u16_from_le_bytes(buf[4], buf[5])
        pressure == u16_from_le_bytes(buf[6], buf[7])
        x_tilt   == i8_from_le_bytes(buf[8])
        y_tilt   == i8_from_le_bytes(buf[9])
        syn(n)   == write_digitizer_event(n, SYN_REPORT, 0)
    IN
    IF stylus_in_area /\ ~m.stylus.in_area THEN
      LET e1 == write_digitizer_event([m EXCEPT !.stylus.in_area = TRUE], "BTN_TOOL_PEN", 1)
          e2 == write_digitizer_x(e1, x, TRUE)
          e3 == write_digitizer_y(e2, y, TRUE)
      IN syn(e3)
    ELSE IF ~stylus_in_area /\ m.stylus.in_area THEN
      LET l1 == write_digitizer_tip_released(m)
          l2 == write_digitizer_x(l1, x, FALSE)
          l3 == write_digitizer_y(l2, y, FALSE)
          l4 == write_digitizer_tilt_x(l3, 0)
          l5 == write_digitizer_tilt_y(l4, 0)
          l6 == write_digitizer_button0_released(l5)
          l7 == write_digitizer_button1_released(l6)
          l8 == write_digitizer_event(l7, "BTN_TOOL_PEN", 0)
          l9 == IF l8.status = "ok" THEN [l8 EXCEPT !.stylus.in_area = FALSE] ELSE l8
      IN syn(l9)
    ELSE
      LET t == IF stylus_touching THEN write_digitizer_tip_pressed(m)
               ELSE write_digitizer_tip_released(m)
      IN
      IF t.status # "ok" THEN t
      ELSE IF t.ret THEN
        syn(write_digitizer_y(write_digitizer_x(t, x, FALSE), y, FALSE))
      ELSE
        LET r1 == IF stylus0_pressed THEN write_digitizer_button0_pressed(t)
                  ELSE write_digitizer_button0_released(t)
            r2 == IF stylus1_pressed THEN write_digitizer_button1_pressed(r1)
                  ELSE write_digitizer_button1_released(r1)
            r3 == write_digitizer_tip_pressure(r2, pressure, FALSE)
            r4 == write_digitizer_x(r3, x, FALSE)
            r5 == write_digitizer_y(r4, y, FALSE)
            r6 == write_digitizer_tilt_x(r5, x_tilt)
            r7 == write_digitizer_tilt_y(r6, y_tilt)
            report == r1.ret \/ r2.ret \/ r3.ret \/ r4.ret \/ r5.ret \/ r6.ret \/ r7.ret
        IN IF r7.status = "ok" /\ report THEN syn(r7) ELSE r7

\* --------------------------------------------- button/keymap dispatcher
\* Mutant: the index is advanced without the modulo.
switch_schema_no_wrap(m) ==
  IF m.status # "ok" THEN m ELSE [m EXCEPT !.keymap_index = @ + 1]

switch_schema(m) ==
  IF m.status # "ok" THEN m
  ELSE
    LET len == Len(m.conf.keymaps)
        current_index == m.keymap_index
    IN IF len = 0 THEN Panic(m)
       ELSE LET new_index == (current_index + 1) % len
            IN IF new_index # current_index
               THEN [m EXCEPT !.keymap_index = new_index] ELSE m

\* Mutant: a synchronization event follows every key press.
RECURSIVE press_codes_sync_each(_, _, _)
press_codes_sync_each(m, codes, i) ==
  IF i > Len(codes) THEN m
  ELSE LET w == write_keyboard_event(m, codes[i], 1)
           n == IF w.status = "ok"
                THEN [w EXCEPT !.pressed_keys = @ \cup {codes[i]},
                               !.inserted = IF codes[i] \in w.pressed_keys THEN @
                                            ELSE Append(@, codes[i])]
                ELSE w
       IN press_codes_sync_each(write_keyboard_event(n, SYN_REPORT, 0), codes, i + 1)

\* Mutant: the pressed keys are not inserted into the set.
RECURSIVE press_codes_no_insert(_, _, _)
press_codes_no_insert(m, codes, i) ==
  IF i > Len(codes) THEN m
  ELSE press_codes_no_insert(write_keyboard_event(m, codes[i], 1), codes, i + 1)

\* Keymap::Press(codes): for code in codes.iter() { write press; insert }
\* (`inserted` is the history of the insertions.)
RECURSIVE press_codes(_, _, _)
press_codes(m, codes, i) ==
  IF i > Len(codes) THEN m
  ELSE LET w == write_keyboard_event(m, codes[i], 1)
           n == IF w.status = "ok"
                THEN [w EXCEPT !.pressed_keys = @ \cup {codes[i]},
                               !.inserted = IF codes[i] \in w.pressed_keys THEN @
                                            ELSE Append(@, codes[i])]
                ELSE w
       IN press_codes(n, codes, i + 1)

\* Mutant: only the first key the set yields is released.
release_codes_one(m, order, i) ==
  IF Len(order) = 0 THEN m ELSE write_keyboard_event(m, order[1], 0)

\* for code in self.pressed_keys.iter() { write release }: `order` is the order
\* in which the HashSet yields its elements.
RECURSIVE release_codes(_, _, _)
release_codes(m, order, i) ==
  IF i > Len(order) THEN m
  ELSE release_codes(write_keyboard_event(m, order[i], 0), order, i + 1)

\* The fixed table of the match on `code`: the schema slot of a button code.
ButtonSlot ==
  [c \in {256, 512, 1024, 2048, 2049, 2050, 2051, 4096, 8192, 16384, 32768} |->
     CASE c = 256   -> "button0"
       [] c = 512   -> "button1"
       [] c = 1024  -> "button2"
       [] c = 2048  -> "button3"
       [] c = 2049  -> "ring1"
       [] c = 2050  -> "ring0"
       [] c = 2051  -> "ring_button"
       [] c = 4096  -> "button4"
       [] c = 8192  -> "button5"
       [] c = 16384 -> "button6"
       [] c = 32768 -> "button7"]

\* The handle! macro: look the slot up in the active schema and act on it.
handle(m, field) ==
  IF m.status # "ok" THEN m
  ELSE IF m.keymap_index >= Len(m.conf.keymaps) THEN [m EXCEPT !.status = "err"]
  ELSE
    LET keymap == m.conf.keymaps[m.keymap_index + 1][field]
    IN CASE keymap.kind = "Press" ->
              write_keyboard_event(press_codes(m, keymap.codes, 1), SYN_REPORT, 0)
         [] keymap.kind = "SwitchSchema" -> switch_schema(m)
         [] OTHER -> m

handle_button_event(m, buf, order) ==
  IF m.status # "ok" THEN m
  ELSE IF Len(buf) < 3 THEN Panic(m)
  ELSE
    LET code == buf[2] * 256 + buf[3]
    IN IF code = 0 THEN
         IF m.pressed_keys # {} THEN
           LET r == release_codes(m, order, 1)
               c == IF r.status = "ok"
                    THEN [r EXCEPT !.pressed_keys = {}, !.inserted = <<>>] ELSE r
           IN write_keyboard_event(c, SYN_REPORT, 0)
         ELSE m
       ELSE IF code \in DOMAIN ButtonSlot THEN handle(m, ButtonSlot[code])
       ELSE m

\* ---------------------------------------------------- report decoder
\* Mutant: the usage byte is not checked.
handle_device_input_any_usage(m, buf, order) ==
  IF Len(buf) = 0 THEN m
  ELSE
    LET rest == SubSeq(buf, 2, Len(buf))
    IN IF Len(rest) = 0 THEN Panic(m)
       ELSE IF HighNibble(rest[1]) = 240 THEN handle_button_event(m, rest, order)
       ELSE handle_digitizer_event(m, rest)

handle_device_input(m, buf, order) ==
  IF Len(buf) = 0 THEN m
  ELSE IF buf[1] # 2 THEN m
  ELSE
    LET rest == SubSeq(buf, 2, Len(buf))
    IN IF Len(rest) = 0 THEN Panic(m)
       ELSE IF HighNibble(rest[1]) = 240 THEN handle_button_event(m, rest, order)
       ELSE handle_digitizer_event(m, rest)

\* ---------------------------------------------------- hot reload
\* Mutant: the replacement is installed with its own maximums.
reloaded_conf_wholesale(live, latest) == latest

\* The configuration check_config_change installs when it takes `latest`.
reloaded_conf(live, latest) ==
  [latest EXCEPT !.x_max_value = live.x_max_value,
                 !.y_max_value = live.y_max_value]

\* Mutant: the index is kept whatever the replacement holds.
reloaded_index_kept(live, latest, index) == index

\* Mutant: every reload goes back to schema 0.
reloaded_index_reset(live, latest, index) == 0

\* The keymap_index check_config_change leaves.
reloaded_index(live, latest, index) ==
  IF Len(latest.keymaps) >= Len(live.keymaps) THEN index ELSE 0

\* ------------------------------------------------------------ bounds
MaxSchemas == 2      \* a configuration holds 1..MaxSchemas keymap schemas
MaxCoord == 1        \* raw coordinates are 0, CoordStep, .., MaxCoord * CoordStep
CoordStep == 300
MaxFailAt == 1       \* the write that fails is one of the first MaxFailAt + 1 of a report
MaxPosts == 2        \* the watcher posts at most MaxPosts configurations between two takes
MaxRun == 3          \* the history counts up to MaxRun deliveries of one report in a row

NoFail == 0 - 1

\* ------------------------------------------------------ configurations
Slots == {ButtonSlot[c] : c \in DOMAIN ButtonSlot}

Press(codes) == [kind |-> "Press", codes |-> codes]
SwitchSchema == [kind |-> "SwitchSchema"]
NoOp == [kind |-> "NoOp"]

\* The i-th schema of the configuration file of the model: button0 presses a
\* combination, button1 switches the schema, the ring button presses one key.
Schema(i) ==
  [f \in Slots |->
     CASE f = "button0" -> IF i % 2 = 1 THEN Press(<<"KEY_A", "KEY_B">>)
                           ELSE Press(<<"KEY_B", "KEY_B">>)
       [] f = "button1" -> SwitchSchema
       [] f = "ring_button" -> Press(<<"KEY_C">>)
       [] OTHER -> NoOp]

Keymaps(n) == [i \in 1..n |-> Schema(i)]

\* Ratio pairs within 0 <= min <= max <= 1, the sub-area a map selects.
Half == <<1, 2>>
Quarter == <<1, 4>>
One == <<1, 1>>
Zero == <<0, 1>>
Two == <<2, 1>>

Config(xmax, ymax, xmap, ymap, n) ==
  [x_max_value |-> xmax, y_max_value |-> ymax, x_map |-> xmap, y_map |-> ymap,
   keymaps |-> Keymaps(n)]

\* The maximums create_uinput_device leaves in the configuration.
XMax == 201
YMax == 150

\* ------------------------------------------------------------ reports
RawCoords == {c * CoordStep : c \in 0..MaxCoord}
RawPressures == {0, 600}
TiltBytes == {0, 255}

Lo(v) == v % 256
Hi(v) == v \div 256

DigitizerReport(b0, y, x, p, tx, ty) ==
  <<2, b0, Lo(y), Hi(y), Lo(x), Hi(x), Lo(p), Hi(p), tx, ty>>

ButtonReport(code) == <<2, 240, Hi(code), Lo(code), 0, 0, 0, 0, 0, 0>>

\* Reports with area nibble 0xA or 0xC and every combination of the flags.
StylusReports ==
  {DigitizerReport(a + fl, y, x, p, tx, ty) :
     a \in {160, 192}, fl \in 0..7, y \in RawCoords, x \in RawCoords,
     p \in RawPressures, tx \in TiltBytes, ty \in TiltBytes}

\* Release-all, four codes of the table (button0, button1, button2 and the
\* ring button) and a code outside the table.
ButtonReports == {ButtonReport(c) : c \in {0, 256, 512, 1024, 2051, 768}}

\* An empty read, a foreign usage byte, an unknown digitizer nibble.
DroppedReports ==
  {<<>>, <<1, 160, 0, 0, 0, 0, 0, 0, 0, 0>>,
   DigitizerReport(16 + 1, CoordStep, CoordStep, 600, 255, 255),
   <<2, 176>>}

\* ------------------------------------------------------ USB handshake
DEVICE_HANDSHAKE_DATA_LIST ==
  << <<253, 137, 255, 255, 0, 0, 0, 6, 0, 0, 3, 1, 1, 1, 145, 32>>,
     <<253, 137, 255, 255, 0, 1, 0, 6, 0, 0, 1, 1, 2, 2, 253, 88>>,
     <<253, 137, 255, 255, 0, 2, 0, 6, 0, 0, 1, 1, 2, 4, 78, 105>>,
     <<2, 176, 4, 0, 0, 0, 0, 0>> >>

HANDSHAKE_USAGE_BUF_SIZE == 1101

\* The buffer written for msg: padded with zeros to the handshake size when
\* its lead byte is 0xfd, msg itself otherwise.
handshake_buf(msg) ==
  IF msg[1] = 253
  THEN msg \o [k \in 1..(HANDSHAKE_USAGE_BUF_SIZE - Len(msg)) |-> 0]
  ELSE msg

\* What a transfer may return: Ok, Err(Timeout), another Err.
TransferResults == {"ok", "timeout", "error"}

\* The transfers as the history keeps them; i is the index of enumerate().
WriteTransfer(i, result) ==
  LET buf == handshake_buf(DEVICE_HANDSHAKE_DATA_LIST[i + 1])
  IN [op |-> "write", i |-> i, len |-> Len(buf), lead |-> buf[1], result |-> result]

ReadTransfer(i, result) ==
  [op |-> "read", i |-> i, len |-> HANDSHAKE_USAGE_BUF_SIZE, lead |-> 0,
   result |-> result]

\* The transfers of a handshake whose first n messages went through.
RECURSIVE HandshakeLog(_)
HandshakeLog(n) ==
  IF n = 0 THEN <<>>
  ELSE HandshakeLog(n - 1) \o <<WriteTransfer(n - 1, "ok"), ReadTransfer(n - 1, "ok")>>

\* ------------------------------------------------- the virtual devices
DigitizerCodes ==
  {"BTN_TOOL_PEN", "BTN_TOUCH", "ABS_PRESSURE", "BTN_STYLUS", "BTN_STYLUS2",
   "ABS_X", "ABS_Y", "ABS_TILT_X", "ABS_TILT_Y"}

\* The devices before any event is written.
NothingWritten == [digitizer |-> [c \in DigitizerCodes |-> 0], keyboard |-> {}]

\* The devices u after the events evs[i], evs[i + 1], ... reach them.
RECURSIVE Deliver(_, _, _)
Deliver(u, evs, i) ==
  IF i > Len(evs) THEN u
  ELSE
    LET e == evs[i]
        v == CASE e.dev = "digitizer" /\ e.code \in DigitizerCodes ->
                    [u EXCEPT !.digitizer[e.code] = e.value]
               [] e.dev = "keyboard" /\ e.code # SYN_REPORT /\ e.value = 1 ->
                    [u EXCEPT !.keyboard = @ \cup {e.code}]
               [] e.dev = "keyboard" /\ e.code # SYN_REPORT /\ e.value = 0 ->
                    [u EXCEPT !.keyboard = @ \ {e.code}]
               [] OTHER -> u
    IN Deliver(v, evs, i + 1)

\* ------------------------------------------------------------ state
ZeroStylus ==
  [in_area |-> FALSE, tip_pressed |-> FALSE, pressure |-> 0,
   button0_pressed |-> FALSE, button1_pressed |-> FALSE,
   x |-> 0, y |-> 0, tilt_x |-> 0, tilt_y |-> 0]

\* DriverTask::new
InitWith(confs) ==
  /\ pc = "top"
  /\ cancelled = FALSE
  /\ conf \in confs
  /\ latest_conf = None
  /\ keymap_index = 0
  /\ pressed_keys = {}
  /\ stylus = ZeroStylus
  /\ input = None
  /\ written = <<>>
  /\ pre = None
  /\ inserted = <<>>
  /\ prev = None
  /\ usb = HandshakeLog(Len(DEVICE_HANDSHAKE_DATA_LIST))
  /\ posts = <<>>
  /\ uinput = NothingWritten

\* The orders in which a HashSet may yield the elements of S.
Orders(S) ==
  {o \in [1..Cardinality(S) -> S] : \A i, j \in 1..Cardinality(S) : o[i] = o[j] => i = j}

\* pressed_keys.iter() runs only for the release-all code (line 211): the
\* orders it may yield for the report buf, <<>> standing for "not iterated".
IterationOrders(buf) ==
  IF Len(buf) >= 4 /\ buf[1] = 2 /\ HighNibble(buf[2]) = 240
     /\ buf[3] = 0 /\ buf[4] = 0
  THEN Orders(pressed_keys) ELSE {<<>>}

\* An event of a hover or tip transition.
IsTransition(e) == e.code \in {"BTN_TOOL_PEN", "BTN_TOUCH"}

\* The fields of DriverTask a step may change, as the history keeps them.
Fields ==
  [conf |-> conf, latest_conf |-> latest_conf, keymap_index |-> keymap_index,
   pressed_keys |-> pressed_keys, inserted |-> inserted, stylus |-> stylus,
   posts |-> posts]

\* run: if self.cancel_token.cancelled() { return Ok(()) }
CheckCancelled ==
  /\ pc = "top"
  /\ pc' = IF cancelled THEN "ok" ELSE "conf"
  /\ UNCHANGED <<cancelled, conf, latest_conf, keymap_index, pressed_keys,
                 stylus, input, written, pre, inserted, prev, usb, posts, uinput>>

\* Mutant: the slot is read but not emptied.
check_config_change_peek ==
  /\ pc = "conf"
  /\ pc' = "call"
  /\ pre' = Some(Fields)
  /\ IF latest_conf = None
     THEN UNCHANGED <<conf, keymap_index, prev, posts>>
     ELSE /\ conf' = reloaded_conf(conf, latest_conf[1])
          /\ keymap_index' = reloaded_index(conf, latest_conf[1], keymap_index)
          /\ prev' = None
          /\ posts' = <<>>
  /\ UNCHANGED <<cancelled, latest_conf, pressed_keys, stylus, input, written,
                 inserted, usb, uinput>>

\* self.latest_conf.lock().take(): None returns, Some(c) is installed.
check_config_change ==
  /\ pc = "conf"
  /\ pc' = "call"
  /\ pre' = Some(Fields)
  /\ IF latest_conf = None
     THEN UNCHANGED <<conf, latest_conf, keymap_index, prev, posts>>
     ELSE /\ conf' = reloaded_conf(conf, latest_conf[1])
          /\ keymap_index' = reloaded_index(conf, latest_conf[1], keymap_index)
          /\ latest_conf' = None
          /\ prev' = None
          /\ posts' = <<>>
  /\ UNCHANGED <<cancelled, pressed_keys, stylus, input, written, inserted,
                 usb, uinput>>

\* run calls read_and_handle_device_input, whose loop starts to read.
EnterRead ==
  /\ pc = "call"
  /\ pc' = "read"
  /\ pre' = None
  /\ UNCHANGED <<cancelled, conf, latest_conf, keymap_index, pressed_keys,
                 stylus, input, written, inserted, prev, usb, posts, uinput>>

\* read_interrupt returns Ok(len): handle_device_input(&buf[..len])?
ReadReport(reports, fails, builds) ==
  /\ pc = "read"
  /\ \E buf \in reports, fail_at \in fails, checks \in builds :
     \E order \in IterationOrders(buf) :
       LET m0 == [conf |-> conf, keymap_index |-> keymap_index,
                  pressed_keys |-> pressed_keys, inserted |-> inserted,
                  stylus |-> stylus, written |-> <<>>, fail_at |-> fail_at,
                  overflow_checks |-> checks, status |-> "ok", ret |-> FALSE]
           m == handle_device_input(m0, buf, order)
       IN /\ pc' = CASE m.status = "ok" -> "handled"
                     [] m.status = "err" -> "err"
                     [] m.status = "panic" -> "panic"
          /\ keymap_index' = m.keymap_index
          /\ pressed_keys' = m.pressed_keys
          /\ stylus' = m.stylus
          /\ written' = m.written
          /\ input' = Some(buf)
          /\ inserted' = m.inserted
          /\ pre' = Some(Fields)
          /\ uinput' = Deliver(uinput, m.written, 1)
  /\ UNCHANGED <<cancelled, conf, latest_conf, prev, usb, posts>>

\* handle_device_input returned Ok: the inner loop reads again.  `track` says
\* whether the history variable records the report just handled, how many
\* times in a row it has been delivered (up to MaxRun) and how many of these
\* deliveries wrote events.
NextRead(track) ==
  /\ pc = "handled"
  /\ pc' = "read"
  /\ input' = None
  /\ written' = <<>>
  /\ pre' = None
  /\ prev' = IF track
             THEN LET again == prev # None /\ prev[1].report = input[1]
                      wrote == IF written = <<>> THEN 0 ELSE 1
                  IN Some([report |-> input[1],
                           transition |-> \E i \in 1..Len(written) : IsTransition(written[i]),
                           run |-> IF again THEN Min(prev[1].run + 1, MaxRun) ELSE 1,
                           emitted |-> IF again THEN Min(prev[1].emitted + wrote, MaxRun)
                                       ELSE wrote])
             ELSE None
  /\ UNCHANGED <<cancelled, conf, latest_conf, keymap_index, pressed_keys,
                 stylus, inserted, usb, posts, uinput>>

\* Mutant: a timeout forgets the held keys.
ReadTimeout_forgetful ==
  /\ pc = "read"
  /\ pc' = "top"
  /\ pressed_keys' = {}
  /\ UNCHANGED <<cancelled, conf, latest_conf, keymap_index, stylus, input,
                 written, pre, inserted, prev, usb, posts, uinput>>

\* read_interrupt returns Err(UsbError::Timeout)
ReadTimeout ==
  /\ pc = "read"
  /\ pc' = "top"
  /\ UNCHANGED <<cancelled, conf, latest_conf, keymap_index, pressed_keys,
                 stylus, input, written, pre, inserted, prev, usb, posts, uinput>>

\* read_interrupt returns another Err(e)
ReadError ==
  /\ pc = "read"
  /\ pc' = "err"
  /\ UNCHANGED <<cancelled, conf, latest_conf, keymap_index, pressed_keys,
                 stylus, input, written, pre, inserted, prev, usb, posts, uinput>>

\* The watcher's callback: latest_conf.lock().replace(conf).  `track` says
\* whether the history variable records the post; at most MaxPosts posts are
\* recorded between two takes.
PostConfig(confs, track) ==
  /\ pc \in {"top", "conf", "call", "read"}
  /\ track => Len(posts) < MaxPosts
  /\ \E c \in confs :
       /\ latest_conf' = Some(c)
       /\ posts' = IF track THEN Append(posts, c) ELSE posts
  /\ UNCHANGED <<pc, cancelled, conf, keymap_index, pressed_keys, stylus,
                 input, written, pre, inserted, prev, usb, uinput>>

\* The lifecycle controller cancels the token.
Cancel ==
  /\ ~cancelled
  /\ cancelled' = TRUE
  /\ UNCHANGED <<pc, conf, latest_conf, keymap_index, pressed_keys, stylus,
                 input, written, pre, inserted, prev, usb, posts, uinput>>

\* open_usb_device_handle: handle.write_interrupt(OUT_ENDPOINT, buf, ..)?
HandshakeWrite ==
  /\ pc = "hs_write"
  /\ \E result \in TransferResults :
       /\ usb' = Append(usb, WriteTransfer(Len(usb) \div 2, result))
       /\ pc' = IF result = "ok" THEN "hs_read" ELSE "init_err"
  /\ UNCHANGED <<cancelled, conf, latest_conf, keymap_index, pressed_keys,
                 stylus, input, written, pre, inserted, prev, posts, uinput>>

\* Mutant: the result of the read is not looked at.
HandshakeRead_unchecked ==
  /\ pc = "hs_read"
  /\ \E result \in TransferResults :
       /\ usb' = Append(usb, ReadTransfer(Len(usb) \div 2, result))
       /\ pc' = IF Len(usb') = 2 * Len(DEVICE_HANDSHAKE_DATA_LIST)
                THEN "top" ELSE "hs_write"
  /\ UNCHANGED <<cancelled, conf, latest_conf, keymap_index, pressed_keys,
                 stylus, input, written, pre, inserted, prev, posts, uinput>>

\* open_usb_device_handle: handle.read_interrupt(IN_ENDPOINT, &mut buf, ..)?
\* After the read of the last message DriverTask::new returns and run starts.
HandshakeRead ==
  /\ pc = "hs_read"
  /\ \E result \in TransferResults :
       /\ usb' = Append(usb, ReadTransfer(Len(usb) \div 2, result))
       /\ pc' = IF result # "ok" THEN "init_err"
                ELSE IF Len(usb') = 2 * Len(DEVICE_HANDSHAKE_DATA_LIST) THEN "top"
                ELSE "hs_write"
  /\ UNCHANGED <<cancelled, conf, latest_conf, keymap_index, pressed_keys,
                 stylus, input, written, pre, inserted, prev, posts, uinput>>

\* ---------------------------------------------------- specifications
\* The whole engine: button reports, dropped reports and a few stylus reports
\* (enter or hover, touch with both side buttons and tilt, leave, leave with
\* the touch bit), failing writes, reloads of 1..MaxSchemas schemas,
\* cancellation and USB errors.
FewStylusReports ==
  {DigitizerReport(160, CoordStep, CoordStep, 0, 0, 0),
   DigitizerReport(160 + 7, CoordStep, 0, 600, 255, 1),
   DigitizerReport(192, 0, 0, 0, 0, 0),
   DigitizerReport(192 + 1, 0, CoordStep, 600, 0, 0)}

Posted ==
  {Config(XMax + 7, 0, IF n % 2 = 1 THEN Some(<<Quarter, One>>) ELSE None,
          IF n % 2 = 1 THEN None ELSE Some(<<Quarter, Half>>), n) : n \in 1..MaxSchemas}

FailAts == {NoFail} \cup 0..MaxFailAt

Init == InitWith({Config(XMax, YMax, None, None, MaxSchemas)})

Next ==
  \/ CheckCancelled
  \/ check_config_change
  \/ EnterRead
  \/ ReadReport(ButtonReports \cup DroppedReports \cup FewStylusReports, FailAts, {TRUE})
  \/ NextRead(FALSE)
  \/ ReadTimeout
  \/ ReadError
  \/ PostConfig(Posted, FALSE)
  \/ Cancel

Spec == Init /\ [][Next]_vars

\* The stylus state machine alone: every stylus report under one
\* configuration, X remapped and Y not.
StylusInit == InitWith({Config(XMax, YMax, Some(<<Quarter, One>>), None, 1)})

StylusNext ==
  \/ CheckCancelled
  \/ check_config_change
  \/ EnterRead
  \/ ReadReport(StylusReports \cup DroppedReports, {NoFail}, {TRUE})
  \/ NextRead(FALSE)
  \/ ReadTimeout

StylusSpec == StylusInit /\ [][StylusNext]_vars

\* Initialization and then the engine: the handshake with every outcome of
\* every transfer, followed by the run loop on button and dropped reports.
HandshakeInit ==
  /\ pc = "hs_write"
  /\ usb = <<>>
  /\ cancelled = FALSE
  /\ conf = Config(XMax, YMax, None, None, MaxSchemas)
  /\ latest_conf = None
  /\ keymap_index = 0
  /\ pressed_keys = {}
  /\ stylus = ZeroStylus
  /\ input = None
  /\ written = <<>>
  /\ pre = None
  /\ inserted = <<>>
  /\ prev = None
  /\ posts = <<>>
  /\ uinput = NothingWritten

HandshakeNext ==
  \/ HandshakeWrite
  \/ HandshakeRead
  \/ CheckCancelled
  \/ check_config_change
  \/ EnterRead
  \/ ReadReport(ButtonReports \cup DroppedReports, {NoFail}, {TRUE})
  \/ NextRead(FALSE)
  \/ ReadTimeout
  \/ ReadError
  \/ Cancel

HandshakeSpec == HandshakeInit /\ [][HandshakeNext]_vars

\* The handoff of configurations: the history variable records the posts; the
\* watcher posts between any two steps of the loop.
HandoffNext ==
  \/ CheckCancelled
  \/ check_config_change
  \/ EnterRead
  \/ ReadReport(ButtonReports, {NoFail}, {TRUE})
  \/ NextRead(FALSE)
  \/ ReadTimeout
  \/ PostConfig(Posted, TRUE)

HandoffSpec == Init /\ [][HandoffNext]_vars

\* The coordinate mapping: one configuration per ratio pair, the pair on both
\* axes, in builds with and without overflow checks; the reports carry the same
\* raw value on both axes.  The pairs select the whole area, a part of it, and
\* twice the area.
MapPairs == {<<Zero, One>>, <<Quarter, Half>>, <<Zero, Two>>}

MapCoords == {0, 60, 120, 300}

MapConfs ==
  {Config(XMax, YMax, None, None, 1)}
    \cup {Config(XMax, YMax, Some(p), Some(p), 1) : p \in MapPairs}

MapReports ==
  {DigitizerReport(a + fl, c, c, 0, 0, 0) : a \in {160, 192}, fl \in {0, 1}, c \in MapCoords}

MapNext ==
  \/ CheckCancelled
  \/ check_config_change
  \/ EnterRead
  \/ ReadReport(MapReports, {NoFail}, BOOLEAN)
  \/ NextRead(FALSE)
  \/ ReadTimeout

MapInit == InitWith(MapConfs)

MapSpec == MapInit /\ [][MapNext]_vars

\* Short reads: read_interrupt returns Ok(len) for every len up to the size
\* of the buffer, and the handler is given buf[..len].
INPUT_USAGE_BUF_SIZE == 10

ShortReports ==
  {SubSeq(r, 1, len) :
     r \in {b \in ButtonReports \cup FewStylusReports \cup DroppedReports :
               Len(b) = INPUT_USAGE_BUF_SIZE},
     len \in 0..INPUT_USAGE_BUF_SIZE}

ShortNext ==
  \/ CheckCancelled
  \/ check_config_change
  \/ EnterRead
  \/ ReadReport(ShortReports, {NoFail}, {TRUE})
  \/ NextRead(FALSE)
  \/ ReadTimeout
  \/ ReadError
  \/ Cancel

ShortSpec == Init /\ [][ShortNext]_vars

\* Repeated reports: the history variable records the previous report; the
\* watcher posts a configuration with other axis maps.  The reports lie on the
\* diagonal, tilt on both axes or on neither and hold both side buttons or none.
RepeatReports ==
  {DigitizerReport(a + fl, c, c, p, t, t) :
     a \in {160, 192}, fl \in {0, 1, 6, 7}, c \in RawCoords,
     p \in RawPressures, t \in TiltBytes}

RepeatPosted == {Config(0, 0, None, Some(<<Quarter, Half>>), 1)}

RepeatNext ==
  \/ CheckCancelled
  \/ check_config_change
  \/ EnterRead
  \/ ReadReport(RepeatReports, {NoFail}, {TRUE})
  \/ NextRead(TRUE)
  \/ ReadTimeout
  \/ PostConfig(RepeatPosted, FALSE)

RepeatSpec == StylusInit /\ [][RepeatNext]_vars

\* ------------------------------------------------------------ properties
\* A report has been read and handle_device_input returned Ok for it.
Handled == pc = "handled"

Dig(code, value) == Event("digitizer", code, value)
Key(code, value) == Event("keyboard", code, value)

\* A full-length report with usage byte 0x02 and area nibble 0xA or 0xC.
IsStylusReport(buf) ==
  Len(buf) = 10 /\ buf[1] = 2 /\ HighNibble(buf[2]) \in {160, 192}

\* The fields of a stylus report as the wire format lays them out.
WireInArea(buf) == HighNibble(buf[2]) = 160
WireTouch(buf) == buf[2] % 2 = 1
WireY(buf) == buf[3] + 256 * buf[4]
WireX(buf) == buf[5] + 256 * buf[6]
WirePressure(buf) == buf[7] + 256 * buf[8]

Count(evs, code) == Cardinality({i \in 1..Len(evs) : evs[i].code = code})
\* The event e is written somewhere in the first n events of evs.
Within(evs, n, e) == \E i \in 1..n : i <= Len(evs) /\ evs[i] = e

\* The report being handled is the one handled just before it, with no
\* configuration installed in between.
SameAsPrevious ==
  Handled /\ prev # None /\ IsStylusReport(input[1]) /\ prev[1].report = input[1]

\* C1 as stated: handling the second of two identical consecutive stylus
\* reports writes no event.
C1_AsStated == SameAsPrevious => written = <<>>

\* C1: handling the second of two identical consecutive stylus reports writes
\* no event, provided the first made no hover or tip transition.
C1_Idempotent == (SameAsPrevious /\ ~prev[1].transition) => written = <<>>

\* C1's case: a report with touch, both side buttons, pressure, position and
\* tilt is handled a second time and writes nothing.
C1_Witness ==
  /\ SameAsPrevious /\ ~prev[1].transition
  /\ input[1][2] = 160 + 7 /\ WirePressure(input[1]) > 0
  /\ WireX(input[1]) > 0 /\ WireY(input[1]) > 0 /\ input[1][9] # 0
  /\ stylus.in_area /\ stylus.tip_pressed /\ stylus.pressure = WirePressure(input[1])
  /\ written = <<>>

\* C2: a report with area nibble 0xA handled while the snapshot is out of
\* range writes exactly BTN_TOOL_PEN=1, ABS_X, ABS_Y, SYN_REPORT, with the mapped
\* coordinates of the report, whatever the snapshot's X and Y and whatever the
\* report's touch, side-button, pressure and tilt fields.
C2_HoverEnter ==
  (Handled /\ IsStylusReport(input[1]) /\ WireInArea(input[1])
     /\ ~pre[1].stylus.in_area)
  => written = << Dig("BTN_TOOL_PEN", 1),
                  Dig("ABS_X", map_x(conf, WireX(input[1]))),
                  Dig("ABS_Y", conf.y_max_value - remapped_y(conf, WireY(input[1]))),
                  Dig(SYN_REPORT, 0) >>

\* C2's case: a hover-enter at the snapshot's own X and Y, by a report that
\* also carries touch, both side buttons, pressure and tilt.
C2_Witness ==
  /\ Handled /\ IsStylusReport(input[1]) /\ WireInArea(input[1])
  /\ ~pre[1].stylus.in_area
  /\ pre[1].stylus.x = map_x(conf, WireX(input[1])) /\ pre[1].stylus.x > 0
  /\ pre[1].stylus.y = conf.y_max_value - remapped_y(conf, WireY(input[1]))
  /\ input[1][2] = 160 + 7 /\ WirePressure(input[1]) > 0
  /\ input[1][9] # 0 /\ input[1][10] # 0
  /\ Len(written) = 4 /\ stylus.in_area

\* C3: a report with area nibble 0xC handled while the snapshot is in range
\* ends with BTN_TOOL_PEN=0 and the report's only SYN_REPORT; before them come
\* BTN_TOUCH=0 and ABS_PRESSURE=0 if the tip was down, the release of every held
\* side button and the reset of every nonzero tilt; afterwards the snapshot is
\* out of range, tip up, side buttons released, tilt 0.
C3_HoverLeave ==
  (Handled /\ IsStylusReport(input[1]) /\ ~WireInArea(input[1])
     /\ pre[1].stylus.in_area)
  => LET n == Len(written)
         old == pre[1].stylus
     IN /\ n >= 2
        /\ written[n - 1] = Dig("BTN_TOOL_PEN", 0)
        /\ written[n] = Dig(SYN_REPORT, 0)
        /\ Count(written, SYN_REPORT) = 1
        /\ Count(written, "BTN_TOOL_PEN") = 1
        /\ old.tip_pressed =>
             \E i, j \in 1..(n - 2) :
                i < j /\ written[i] = Dig("BTN_TOUCH", 0)
                      /\ written[j] = Dig("ABS_PRESSURE", 0)
        /\ old.button0_pressed => Within(written, n - 2, Dig("BTN_STYLUS", 0))
        /\ old.button1_pressed => Within(written, n - 2, Dig("BTN_STYLUS2", 0))
        /\ old.tilt_x # 0 => Within(written, n - 2, Dig("ABS_TILT_X", 0))
        /\ old.tilt_y # 0 => Within(written, n - 2, Dig("ABS_TILT_Y", 0))
        /\ ~stylus.in_area /\ ~stylus.tip_pressed
        /\ ~stylus.button0_pressed /\ ~stylus.button1_pressed
        /\ stylus.tilt_x = 0 /\ stylus.tilt_y = 0

\* C3's case: the stylus leaves with the tip down, both side buttons held and
\* both tilts nonzero, at a new position.
C3_Witness ==
  /\ Handled /\ IsStylusReport(input[1]) /\ ~WireInArea(input[1])
  /\ pre[1].stylus.in_area /\ pre[1].stylus.tip_pressed
  /\ pre[1].stylus.button0_pressed /\ pre[1].stylus.button1_pressed
  /\ pre[1].stylus.tilt_x # 0 /\ pre[1].stylus.tilt_y # 0
  /\ Len(written) = 10 /\ ~stylus.in_area

\* A report whose area nibble is 0xF, long enough to hold the 16-bit code.
IsButtonReport(buf) == Len(buf) >= 4 /\ buf[1] = 2 /\ HighNibble(buf[2]) = 240
WireCode(buf) == buf[3] * 256 + buf[4]
IsReleaseAll(buf) == IsButtonReport(buf) /\ WireCode(buf) = 0

\* The engine's fields other than the configuration are as before the report.
Untouched ==
  /\ stylus = pre[1].stylus
  /\ pressed_keys = pre[1].pressed_keys
  /\ keymap_index = pre[1].keymap_index

\* C4: release-all with no key held writes nothing and changes nothing; with
\* keys held it writes one release (value 0) per held key, then one SYN_REPORT,
\* to the keyboard, and leaves the held-keys set empty.
C4_ReleaseAll ==
  (Handled /\ IsReleaseAll(input[1]))
  => LET held == pre[1].pressed_keys
         n == Cardinality(held)
     IN IF held = {}
        THEN written = <<>> /\ Untouched
        ELSE /\ Len(written) = n + 1
             /\ \A i \in 1..n : written[i].dev = "keyboard" /\ written[i].value = 0
             /\ {written[i].code : i \in 1..n} = held
             /\ written[n + 1] = Key(SYN_REPORT, 0)
             /\ pressed_keys = {}
             /\ stylus = pre[1].stylus /\ keymap_index = pre[1].keymap_index

\* C4's case: release-all with three keys held.
C4_Witness ==
  /\ Handled /\ IsReleaseAll(input[1])
  /\ Cardinality(pre[1].pressed_keys) = 3
  /\ Len(written) = 4 /\ pressed_keys = {}

\* The key codes of the events of a report before its last event.
ReleasedCodes == [i \in 1..(Len(written) - 1) |-> written[i].code]

\* The held keys are the key list of one Press action of the configuration,
\* inserted into an empty set.
HeldFromOnePress ==
  \E i \in 1..Len(pre[1].conf.keymaps), f \in Slots :
     LET keymap == pre[1].conf.keymaps[i][f]
     IN keymap.kind = "Press" /\ keymap.codes = pre[1].inserted

\* C5 as stated: after a Press action with key list [K1, K2, ...] on an empty
\* held set, release-all writes release(K1), release(K2), ... in the order of
\* insertion, then the SYN_REPORT.
C5_AsStated ==
  (Handled /\ IsReleaseAll(input[1]) /\ HeldFromOnePress)
  => /\ ReleasedCodes = pre[1].inserted
     /\ written[Len(written)] = Key(SYN_REPORT, 0)

\* C5: release-all releases every inserted key exactly once, in some order,
\* and then writes the SYN_REPORT.
C5_ReleasePermutation ==
  (Handled /\ IsReleaseAll(input[1]) /\ pre[1].inserted # <<>>)
  => LET ins == pre[1].inserted
     IN /\ Len(written) = Len(ins) + 1
        /\ \E f \in [1..Len(ins) -> 1..Len(ins)] :
              /\ \A i, j \in 1..Len(ins) : f[i] = f[j] => i = j
              /\ \A i \in 1..Len(ins) : written[i] = Key(ins[f[i]], 0)
        /\ written[Len(written)] = Key(SYN_REPORT, 0)

\* C5's case: KEY_A then KEY_B were inserted and KEY_B is released first.
C5_Witness ==
  /\ Handled /\ IsReleaseAll(input[1])
  /\ pre[1].inserted = <<"KEY_A", "KEY_B">>
  /\ written = <<Key("KEY_B", 0), Key("KEY_A", 0), Key(SYN_REPORT, 0)>>

\* The report dispatched a SwitchSchema action of the active schema.
SwitchDispatched ==
  /\ Handled /\ IsButtonReport(input[1])
  /\ WireCode(input[1]) \in DOMAIN ButtonSlot
  /\ pre[1].conf.keymaps[pre[1].keymap_index + 1][ButtonSlot[WireCode(input[1])]].kind
       = "SwitchSchema"

RECURSIVE SwitchTimes(_, _)
SwitchTimes(m, k) == IF k = 0 THEN m ELSE SwitchTimes(switch_schema(m), k - 1)

\* C6: a SwitchSchema action sets the index to (index + 1) mod N; N of them
\* in a row bring the index back; with N = 1 the index stays and no event is
\* written.
C6_SchemaCycling ==
  LET N == Len(conf.keymaps)
  IN /\ SwitchDispatched =>
          /\ keymap_index = (pre[1].keymap_index + 1) % N
          /\ (N = 1 => keymap_index = pre[1].keymap_index /\ written = <<>>)
          /\ pressed_keys = pre[1].pressed_keys /\ stylus = pre[1].stylus
     /\ SwitchTimes([conf |-> conf, keymap_index |-> keymap_index, status |-> "ok"],
                    N).keymap_index = keymap_index

\* C6's case: a switch from the last schema of several wraps to schema 0.
C6_Witness ==
  /\ SwitchDispatched
  /\ Len(conf.keymaps) > 1
  /\ pre[1].keymap_index = Len(conf.keymaps) - 1
  /\ keymap_index = 0

\* check_config_change has just installed a replacement.
Reloaded == pc = "call" /\ pre # None /\ pre[1].latest_conf # None

\* C7: after a reload the live configuration is the replacement with the
\* maximums of the configuration it replaces; the index is 0 if the replacement
\* has fewer schemas and is unchanged otherwise; the maximums are those of
\* construction in every state.
C7_HotReload ==
  /\ Reloaded =>
       LET A == pre[1].conf
           B == pre[1].latest_conf[1]
       IN /\ conf.x_map = B.x_map /\ conf.y_map = B.y_map
          /\ conf.keymaps = B.keymaps
          /\ conf.x_max_value = A.x_max_value /\ conf.y_max_value = A.y_max_value
          /\ DOMAIN conf = DOMAIN B
          /\ keymap_index = IF Len(B.keymaps) < Len(A.keymaps) THEN 0
                            ELSE pre[1].keymap_index
  /\ conf.x_max_value = XMax /\ conf.y_max_value = YMax

\* C7's case: a replacement with other maximums and fewer schemas is installed
\* while a later schema is active.
C7_Witness ==
  /\ Reloaded
  /\ pre[1].latest_conf[1].x_max_value # pre[1].conf.x_max_value
  /\ pre[1].latest_conf[1].y_max_value # pre[1].conf.y_max_value
  /\ Len(pre[1].latest_conf[1].keymaps) < Len(pre[1].conf.keymaps)
  /\ pre[1].keymap_index > 0 /\ keymap_index = 0
  /\ conf.x_map # pre[1].conf.x_map

\* C8: the active schema index is below the number of schemas of the live
\* configuration in every state, and was so whenever a report was dispatched.
C8_IndexValid ==
  /\ keymap_index \in 0..(Len(conf.keymaps) - 1)
  /\ (input # None /\ pre # None) => pre[1].keymap_index < Len(pre[1].conf.keymaps)

\* C8's case: the index that was active would be out of range in the
\* replacement just installed.
C8_Witness ==
  /\ Reloaded
  /\ pre[1].keymap_index >= Len(conf.keymaps)
  /\ keymap_index = 0

\* A report the decoder or a handler drops.
IsDropped(buf) ==
  \/ Len(buf) = 0
  \/ Len(buf) >= 1 /\ buf[1] # 2
  \/ Len(buf) >= 2 /\ buf[1] = 2 /\ HighNibble(buf[2]) \notin {160, 192, 240}
  \/ IsButtonReport(buf) /\ WireCode(buf) \notin (DOMAIN ButtonSlot \cup {0})

\* C9: a dropped report is handled with success, writes no event and leaves
\* the snapshot, the held keys and the schema index as they were.
C9_Dropped ==
  (input # None /\ IsDropped(input[1]))
  => Handled /\ written = <<>> /\ Untouched /\ inserted = pre[1].inserted

\* C9's case: a well-formed stylus report under a foreign usage byte arrives
\* while the stylus is out of range, keys are held and schema 1 is active.
C9_Witness ==
  /\ Handled /\ Len(input[1]) = 10 /\ input[1][1] = 1 /\ input[1][2] = 160
  /\ ~stylus.in_area /\ pressed_keys # {} /\ keymap_index > 0
  /\ written = <<>>

\* C10: the events of a report go to one device, the keyboard for a button
\* report and the digitizer otherwise, hold at most one SYN_REPORT, and when the
\* report is handled with success the last of them, if any, is the SYN_REPORT.
C10_OneSync ==
  input # None =>
    LET dev == IF IsButtonReport(input[1]) THEN "keyboard" ELSE "digitizer"
    IN /\ \A i \in 1..Len(written) : written[i].dev = dev
       /\ Count(written, SYN_REPORT) <= 1
       /\ (Handled /\ written # <<>>) => written[Len(written)].code = SYN_REPORT

\* C10's case: a key combination is pressed while the stylus is in range.
C10_Witness ==
  /\ Handled /\ IsButtonReport(input[1]) /\ stylus.in_area
  /\ written = <<Key("KEY_A", 1), Key("KEY_B", 1), Key(SYN_REPORT, 0)>>

\* C11 as stated: a blocking read starts only when check_config_change has
\* just returned, so a cancellation check and a take of the slot lie between
\* any two reads and no replacement is pending from before the earlier read.
C11_AsStated == [][(pc' = "read" /\ pc # "read") => pc = "call"]_vars

\* C12 as stated: once the token is cancelled, no blocking read is started
\* after a report has been handled.
C12_AsStated == [][(cancelled /\ pc = "handled") => pc' # "read"]_vars

\* The transfers are the writes and reads of messages 0, 1, ... in turn.
InHandshakeOrder ==
  \A k \in 1..Len(usb) :
    /\ usb[k].op = IF k % 2 = 1 THEN "write" ELSE "read"
    /\ usb[k].i = (k - 1) \div 2

\* C13: initialization issues write 1, read 1, ..., write 4, read 4 in this
\* order, messages 1-3 written at 1101 bytes and message 4 at its 8 bytes; a
\* transfer that fails or times out is the last one issued and ends
\* initialization with an error; the run loop runs only after eight successful
\* transfers.
C13_Handshake ==
  /\ Len(usb) <= 8
  /\ InHandshakeOrder
  /\ \A k \in 1..Len(usb) :
       /\ usb[k].op = "write" =>
            /\ usb[k].len = IF usb[k].i < 3 THEN 1101 ELSE 8
            /\ usb[k].lead = DEVICE_HANDSHAKE_DATA_LIST[usb[k].i + 1][1]
       /\ usb[k].result # "ok" => k = Len(usb) /\ pc = "init_err"
  /\ pc = "init_err" => usb # <<>> /\ usb[Len(usb)].result # "ok"
  /\ pc \notin {"hs_write", "hs_read", "init_err"} =>
       Len(usb) = 8 /\ \A k \in 1..8 : usb[k].result = "ok"
  /\ pc = "hs_write" => Len(usb) % 2 = 0 /\ Len(usb) < 8
  /\ pc = "hs_read" => Len(usb) % 2 = 1

\* C13's case: the third read times out after five successful transfers.
C13_Witness ==
  /\ pc = "init_err"
  /\ Len(usb) = 6
  /\ usb[6] = ReadTransfer(2, "timeout")
  /\ usb[5].len = 1101

\* What the engine owns, and what it has written.
EngineState == <<conf, keymap_index, pressed_keys, stylus, written, uinput>>

\* C14: a read timeout writes no event, changes no engine state and returns
\* to the top of the loop; a USB read error ends run with an error and no event
\* written; once run has ended with an error, from a read or from a handler,
\* nothing is read, written or changed any more.
C14_ReadErrors ==
  /\ [](pc = "err" /\ input = None => written = <<>>)
  /\ [][/\ (pc = "read" /\ pc' \in {"top", "err"} /\ input' = None)
             => UNCHANGED <<EngineState, latest_conf>>
        /\ pc = "err" => pc' = "err" /\ UNCHANGED <<EngineState, input, latest_conf>>
        /\ (pc = "read" /\ input' = None) => pc' \in {"read", "top", "err"}]_vars

\* C14's case: a USB read error while keys are held and the stylus is in range.
C14_Witness ==
  /\ pc = "err" /\ input = None
  /\ pressed_keys # {} /\ stylus.in_area

\* C15: the slot is empty exactly when nothing was posted since the last take,
\* and otherwise holds the most recent post; a take installs what the slot held,
\* the most recent post, and empties the slot; a take on the empty slot changes
\* nothing.
C15_Handoff ==
  /\ [](/\ latest_conf = None <=> posts = <<>>
        /\ posts # <<>> => latest_conf = Some(posts[Len(posts)])
        /\ Reloaded =>
             LET last == pre[1].posts[Len(pre[1].posts)]
             IN /\ pre[1].latest_conf = Some(last)
                /\ conf.keymaps = last.keymaps
                /\ conf.x_map = last.x_map /\ conf.y_map = last.y_map
        /\ (pc = "call" /\ pre # None /\ pre[1].latest_conf = None) =>
             conf = pre[1].conf /\ keymap_index = pre[1].keymap_index)
  /\ [][(pc = "conf" /\ pc' = "call") => latest_conf' = None /\ posts' = <<>>]_vars

\* C15's case: two different configurations were posted before the take and
\* the second is installed.
C15_Witness ==
  /\ Reloaded
  /\ Len(pre[1].posts) = 2
  /\ pre[1].posts[1].keymaps # pre[1].posts[2].keymaps
  /\ conf.keymaps = pre[1].posts[2].keymaps
  /\ latest_conf = None

\* C16 as stated: for the live maximums and ratio pairs, the mapped X and the
\* mapped Y before the flip are non-decreasing in the raw value, the values
\* reported and stored never exceed the maximum, and the flip of Y never
\* underflows.
C16_AsStated ==
  /\ pc # "panic"
  /\ stylus.x <= conf.x_max_value
  /\ stylus.y <= conf.y_max_value
  /\ \A r1, r2 \in MapCoords :
       r1 <= r2 => /\ map_x(conf, r1) <= map_x(conf, r2)
                   /\ remapped_y(conf, r1) <= remapped_y(conf, r2)

\* C17 as stated: tip contact implies hover in every state, and BTN_TOUCH = 1
\* is written only while the snapshot is in range.
C17_AsStated ==
  /\ stylus.tip_pressed => stylus.in_area
  /\ (input # None /\ \E i \in 1..Len(written) : written[i] = Dig("BTN_TOUCH", 1))
       => stylus.in_area

\* The snapshot says what the events written so far left on the digitizer.
Faithful ==
  LET d == uinput.digitizer
      Bit(b) == IF b THEN 1 ELSE 0
  IN /\ d["BTN_TOOL_PEN"] = Bit(stylus.in_area)
     /\ d["BTN_TOUCH"] = Bit(stylus.tip_pressed)
     /\ d["ABS_PRESSURE"] = stylus.pressure
     /\ d["BTN_STYLUS"] = Bit(stylus.button0_pressed)
     /\ d["BTN_STYLUS2"] = Bit(stylus.button1_pressed)
     /\ d["ABS_X"] = stylus.x
     /\ d["ABS_Y"] = stylus.y
     /\ d["ABS_TILT_X"] = stylus.tilt_x
     /\ d["ABS_TILT_Y"] = stylus.tilt_y

\* The engine at the current state, about to call a sub-field writer.
Engine ==
  [conf |-> conf, keymap_index |-> keymap_index, pressed_keys |-> pressed_keys,
   inserted |-> inserted, stylus |-> stylus, written |-> <<>>, fail_at |-> NoFail,
   overflow_checks |-> TRUE, status |-> "ok", ret |-> TRUE]

\* The results of the sub-field writers called in the current state.
WriterResults ==
  {write_digitizer_x(Engine, x, FALSE) : x \in RawCoords}
    \cup {write_digitizer_y(Engine, y, FALSE) : y \in RawCoords}
    \cup {write_digitizer_tip_pressure(Engine, p, FALSE) : p \in RawPressures \cup {1}}
    \cup {write_digitizer_tilt_x(Engine, i8_from_le_bytes(t)) : t \in TiltBytes}
    \cup {write_digitizer_tilt_y(Engine, i8_from_le_bytes(t)) : t \in TiltBytes}
    \cup {write_digitizer_tip_pressed(Engine), write_digitizer_tip_released(Engine),
          write_digitizer_button0_pressed(Engine), write_digitizer_button0_released(Engine),
          write_digitizer_button1_pressed(Engine), write_digitizer_button1_released(Engine)}

\* C18: whenever run has not failed, every field of the snapshot is the value
\* of the last event written for it, or its initial value; a sub-field writer
\* that returns false writes nothing and leaves the snapshot as it was, one that
\* returns true writes an event.
C18_Faithful ==
  /\ pc \notin {"err", "panic"} => Faithful
  /\ \A w \in WriterResults :
       IF w.ret THEN w.written # <<>>
       ELSE w.written = <<>> /\ w.stylus = stylus

\* C18's case: every field of the snapshot was written, before and after a
\* reload that changed the Y map.
C18_Witness ==
  /\ Handled /\ Faithful
  /\ conf.y_map # None
  /\ stylus.in_area /\ stylus.tip_pressed
  /\ stylus.button0_pressed /\ stylus.button1_pressed
  /\ stylus.pressure > 1 /\ stylus.x > 0 /\ stylus.y > 0
  /\ stylus.tilt_x # 0 /\ stylus.tilt_y # 0
  /\ written # <<>>

\* The report is a button report with a code of the table.
Dispatched ==
  Handled /\ IsButtonReport(input[1]) /\ WireCode(input[1]) \in DOMAIN ButtonSlot

\* The action the report's code is bound to in the schema that was active.
DispatchedAction ==
  pre[1].conf.keymaps[pre[1].keymap_index + 1][ButtonSlot[WireCode(input[1])]]

\* C19: whenever run has not failed, the held keys are the keys down on the
\* virtual keyboard; a Press action writes a press per listed key in list order
\* and one SYN_REPORT and adds the keys to the set; SwitchSchema, the other
\* actions and a reload leave the set as it was.
C19_HeldKeys ==
  /\ pc \notin {"err", "panic"} => pressed_keys = uinput.keyboard
  /\ Dispatched =>
       IF DispatchedAction.kind = "Press"
       THEN LET codes == DispatchedAction.codes
            IN /\ written = [i \in 1..(Len(codes) + 1) |->
                               IF i <= Len(codes) THEN Key(codes[i], 1)
                               ELSE Key(SYN_REPORT, 0)]
               /\ pressed_keys = pre[1].pressed_keys \cup {codes[i] : i \in 1..Len(codes)}
       ELSE pressed_keys = pre[1].pressed_keys /\ written = <<>>
  /\ Reloaded => pressed_keys = pre[1].pressed_keys

\* C19's case: a combination is pressed while a key of an earlier Press is
\* still held.
C19_Witness ==
  /\ Dispatched /\ DispatchedAction.kind = "Press"
  /\ pre[1].pressed_keys = {"KEY_C"}
  /\ pressed_keys = {"KEY_A", "KEY_B", "KEY_C"}
  /\ uinput.keyboard = pressed_keys

\* The report makes neither a hover nor a tip transition.
NoTransition ==
  /\ Handled /\ IsStylusReport(input[1])
  /\ WireInArea(input[1]) = pre[1].stylus.in_area
  /\ WireTouch(input[1]) = pre[1].stylus.tip_pressed

\* The field events of the report in field order, each with the value the
\* snapshot held for it.
FieldUpdates ==
  LET buf == input[1]
      old == pre[1].stylus
      Bit(b) == IF b THEN 1 ELSE 0
  IN << <<Dig("BTN_STYLUS", Bit(BitSet(buf[2], 1))), Bit(old.button0_pressed)>>,
        <<Dig("BTN_STYLUS2", Bit(BitSet(buf[2], 2))), Bit(old.button1_pressed)>>,
        <<Dig("ABS_PRESSURE", WirePressure(buf)), old.pressure>>,
        <<Dig("ABS_X", map_x(conf, WireX(buf))), old.x>>,
        <<Dig("ABS_Y", conf.y_max_value - remapped_y(conf, WireY(buf))), old.y>>,
        <<Dig("ABS_TILT_X", i8_from_le_bytes(buf[9])), old.tilt_x>>,
        <<Dig("ABS_TILT_Y", i8_from_le_bytes(buf[10])), old.tilt_y>> >>

IsChange(u) == u[1].value # u[2]

\* C20: a report without hover or tip transition writes one event for each of
\* side button 0, side button 1, pressure, X, Y, tilt X, tilt Y whose value
\* differs from the snapshot, in this order, and then one SYN_REPORT if and only
\* if it wrote such an event.
C20_SteadyUpdate ==
  NoTransition =>
    LET changes == SelectSeq(FieldUpdates, IsChange)
        events == [i \in 1..Len(changes) |-> changes[i][1]]
    IN written = IF events = <<>> THEN <<>> ELSE Append(events, Dig(SYN_REPORT, 0))

\* C20's case: X and tilt Y change and the other five fields do not.
C20_Witness ==
  /\ NoTransition
  /\ Len(written) = 3
  /\ written[1].code = "ABS_X" /\ written[2].code = "ABS_TILT_Y"
  /\ pre[1].stylus.button0_pressed /\ pre[1].stylus.pressure > 1

\* The events of evs written to the device dev.
OnDevice(evs, dev) == {i \in 1..Len(evs) : evs[i].dev = dev}

\* C21: the schema index changes only in a step that dispatches SwitchSchema
\* or in a reload whose replacement has fewer schemas, and then it becomes 0;
\* Press, the other actions, release-all, unknown codes and stylus reports
\* leave it as it was; a button report leaves the snapshot as it was and
\* writes nothing to the digitizer; a stylus report leaves the held keys as
\* they were and writes nothing to the keyboard.
C21_Frame ==
  /\ [](/\ (input # None /\ IsButtonReport(input[1])) =>
             /\ stylus = pre[1].stylus
             /\ OnDevice(written, "digitizer") = {}
             /\ (~SwitchDispatched => keymap_index = pre[1].keymap_index)
        /\ (input # None /\ IsStylusReport(input[1])) =>
             /\ pressed_keys = pre[1].pressed_keys
             /\ keymap_index = pre[1].keymap_index
             /\ OnDevice(written, "keyboard") = {}
        /\ (Reloaded /\ keymap_index # pre[1].keymap_index) =>
             /\ Len(pre[1].latest_conf[1].keymaps) < Len(pre[1].conf.keymaps)
             /\ keymap_index = 0)
  /\ [][keymap_index' # keymap_index =>
          \/ pc = "read" /\ SwitchDispatched'
          \/ /\ pc = "conf" /\ latest_conf # None
             /\ Len(latest_conf[1].keymaps) < Len(conf.keymaps)
             /\ keymap_index' = 0]_vars

\* C21's case: SwitchSchema moves the index while keys are held and the
\* stylus hovers.
C21_Witness ==
  /\ SwitchDispatched
  /\ keymap_index # pre[1].keymap_index
  /\ pressed_keys # {} /\ stylus.in_area
  /\ stylus = pre[1].stylus /\ pressed_keys = pre[1].pressed_keys

\* C22: when the same stylus report is delivered again and again with no
\* reload in between, the fourth delivery and every later one write no event.
C22_Converges ==
  (SameAsPrevious /\ prev[1].run >= 3) => written = <<>>

\* C22's case: the first three deliveries of a report each wrote events (hover
\* enter, tip press, field update) and the fourth writes none.
C22_Witness ==
  /\ SameAsPrevious
  /\ prev[1].run = 3 /\ prev[1].emitted = 3
  /\ written = <<>>
  /\ stylus.in_area /\ stylus.tip_pressed /\ stylus.button0_pressed

\* C23 as stated: for every buffer of 0 to 10 bytes a read returns,
\* handle_device_input returns, having dropped or handled the buffer, without
\* an access out of bounds.
C23_AsStated ==
  (input # None /\ Len(input[1]) <= INPUT_USAGE_BUF_SIZE) => pc \in {"handled", "err"}

====
